---- MODULE Spec2Model ----
(***************************************************************************)
(* Model of the two GUI front ends of Video-in-Speech:                     *)
(*   mit.py  "Media to Text Converter"  (conversion starts on file choice)  *)
(*   tis.py  "Video to Text Converter"  (explicit Convert to Text button)   *)
(* One UI thread (the Tk main loop, with nested loops inside modal         *)
(* dialogs), the queue of root.after callbacks, and one worker thread per  *)
(* started conversion.  The decoding and recognition backends are opaque:  *)
(* every call into them either returns or raises.                          *)
(***************************************************************************)
EXTENDS Integers, Sequences, FiniteSets, TLC

VARIABLES
    app,            \* which program runs: "mit" or "tis"
    selected_file,  \* self.selected_file
    output_file,    \* self.output_file
    file_label,     \* self.file_label: the file whose name it shows, None for "No file selected"
    upload_btn,     \* state of the Browse button
    convert_btn,    \* state of the Convert to Text button (tis.py only)
    open_btn,       \* state of the Open Folder button (tis.py only)
    progress_label, \* text of self.progress_label
    progress_bar,   \* value of self.progress_bar
    uistack,        \* modal dialogs the UI thread is inside of, innermost last
    afterq,         \* callbacks posted with root.after(0, ...), in posting order
    timers,         \* callbacks posted with root.after(3000, ...), in posting order
    workers,        \* the worker threads: position and locals of each
    njobs,          \* number of worker threads started so far
    fs,             \* the directory of the media file: path -> content
    jobs,           \* per job: what it was started on and what it did (history)
    widget_use      \* which thread called a method of which widget (history)

vars == <<app, selected_file, output_file, file_label, upload_btn, convert_btn,
          open_btn, progress_label, progress_bar, uistack, afterq, timers,
          workers, njobs, fs, jobs, widget_use>>

(***************************************************************************)
(* Bounds and program constants                                            *)
(***************************************************************************)
MaxJobs == 2

Maximum == 100

MitStep == 30

TisStep == 10

JobIds == 1..MaxJobs

(***************************************************************************)
(* Paths: pathlib.Path reduced to its stem and suffix, one directory       *)
(***************************************************************************)
Stems == {"a"}

SourceSuffixes == {".MKV", ".wav", ".xyz"}

AllSuffixes == SourceSuffixes \cup {".wav", ".txt"}

Paths == [stem : Stems, suffix : AllSuffixes]

None == [stem |-> "", suffix |-> ""]

Path(stem, suffix) == [stem |-> stem, suffix |-> suffix]

\* str.lower() on the suffixes that occur
lower(s) == CASE s = ".MKV" -> ".mkv"
              [] s = ".MP4" -> ".mp4"
              [] s = ".WAV" -> ".wav"
              [] OTHER -> s

VideoSuffixes == {".mp4", ".avi", ".mov", ".mkv"}

AudioSuffixes == {".mp3", ".wav", ".ogg"}

\* selected_file.parent / f"{selected_file.stem}.wav"
wav_of(p) == Path(p.stem, ".wav")

\* selected_file.parent / f"{selected_file.stem}.txt"
txt_of(p) == Path(p.stem, ".txt")

\* what the recognizer may return
Texts == {"", "hello"}

Absent == "absent"

exists(p) == p \in DOMAIN fs /\ fs[p] # Absent

(***************************************************************************)
(* Initial state: after __init__ / setup_ui, before mainloop handles input *)
(***************************************************************************)
NewWorker == [pc |-> "unstarted", clip |-> "none", audio_file |-> "unbound",
              wav_filename |-> None, text |-> ""]

NewJob == [src |-> None, before |-> Absent, decode |-> FALSE, made |-> {},
           terminal |-> "none", delivered |-> 0, error |-> ""]

Init ==
    /\ app \in {"mit", "tis"}
    /\ selected_file = None
    /\ output_file = None
    /\ file_label = None
    /\ upload_btn = "normal"
    /\ convert_btn = IF app = "tis" THEN "disabled" ELSE "absent"
    /\ open_btn = IF app = "tis" THEN "disabled" ELSE "absent"
    /\ progress_label = ""
    /\ progress_bar = 0
    /\ uistack = <<>>
    /\ afterq = <<>>
    /\ timers = <<>>
    /\ workers = [j \in JobIds |-> NewWorker]
    /\ njobs = 0
    /\ fs = [p \in Paths |-> IF p.suffix \in SourceSuffixes THEN "orig" ELSE Absent]
    /\ jobs = [j \in JobIds |-> NewJob]
    /\ widget_use = {}

(***************************************************************************)
(* Widgets                                                                 *)
(***************************************************************************)
\* a method of widget w is called from thread t
Touch(t, ws) == widget_use' = widget_use \cup {<<t, w>> : w \in ws}

\* ttk.Progressbar.step(amount) in determinate mode: add, wrap at the maximum
Progressbar_step(amount) == progress_bar' = (progress_bar + amount) % Maximum

\* ttk.Progressbar.stop(): ends autoincrement; Tk's ttk::progressbar::stop also
\* sets the value back to 0, the documented contract leaves the value alone
Progressbar_stop == progress_bar' \in {0, progress_bar}

Top == uistack[Len(uistack)]

Pop == SubSeq(uistack, 1, Len(uistack) - 1)

Dialog(at, job) == [at |-> at, job |-> job]

Callback(job, kind, msg) == [job |-> job, kind |-> kind, msg |-> msg]

(***************************************************************************)
(* start_conversion (mit.py 108-123, tis.py 111-127)                       *)
(***************************************************************************)
\* start_conversion forgetting the Browse button
disable_buttons_convert_only ==
    /\ upload_btn' = upload_btn
    /\ convert_btn' = IF app = "tis" THEN "disabled" ELSE convert_btn

\* "Disable buttons during conversion"
disable_buttons ==
    /\ upload_btn' = "disabled"
    /\ convert_btn' = IF app = "tis" THEN "disabled" ELSE convert_btn

\* thread = Thread(target=self.convert_media / self.convert_video); thread.start()
\* The locals of a thread that has returned are gone, and the history of a job
\* is kept until the next job starts (its terminal event is remembered).
thread_start(sel) ==
    /\ njobs' = njobs + 1
    /\ workers' = [k \in JobIds |->
                     IF k = njobs + 1 THEN [NewWorker EXCEPT !.pc = "begin"]
                     ELSE IF workers[k].pc = "done" THEN [NewWorker EXCEPT !.pc = "done"]
                     ELSE workers[k]]
    /\ jobs' = [k \in JobIds |->
                  IF k = njobs + 1
                  THEN [NewJob EXCEPT !.src = sel,
                                      !.before = IF sel \in DOMAIN fs THEN fs[sel] ELSE Absent]
                  ELSE IF workers[k].pc = "done"
                  THEN [NewJob EXCEPT !.terminal = jobs[k].terminal,
                                      !.delivered = jobs[k].delivered]
                  ELSE jobs[k]]

\* sel is self.selected_file at the call, stack the dialogs open at the call
start_conversion(sel, stack) ==
    IF sel = None
    THEN /\ uistack' = Append(stack, Dialog("showerror_select", 0))
         /\ UNCHANGED <<upload_btn, convert_btn, progress_label, njobs, workers,
                        jobs, widget_use>>
    ELSE /\ uistack' = stack
         /\ disable_buttons
         /\ progress_label' = IF app = "mit" THEN "Converting media to text..."
                                             ELSE "Converting video to text..."
         /\ Touch("ui", {"upload_btn", "progress_label"}
                        \cup IF app = "tis" THEN {"convert_btn"} ELSE {})
         /\ thread_start(sel)

(***************************************************************************)
(* browse_file (mit.py 90-106, tis.py 92-109)                              *)
(***************************************************************************)
\* the Browse button is pressed: filedialog.askopenfilename opens (modal)
browse_file_open ==
    /\ upload_btn = "normal"
    /\ uistack = <<>>
    /\ njobs < MaxJobs
    /\ uistack' = Append(uistack, Dialog("askopenfilename", 0))
    /\ UNCHANGED <<app, selected_file, output_file, file_label, upload_btn,
                   convert_btn, open_btn, progress_label, progress_bar, afterq,
                   timers, workers, njobs, fs, jobs, widget_use>>

\* the dialog is cancelled: filename is empty, nothing else happens
browse_file_cancel ==
    /\ uistack # <<>>
    /\ Top.at = "askopenfilename"
    /\ uistack' = Pop
    /\ UNCHANGED <<app, selected_file, output_file, file_label, upload_btn,
                   convert_btn, open_btn, progress_label, progress_bar, afterq,
                   timers, workers, njobs, fs, jobs, widget_use>>

\* the dialog returns an existing media file of the directory (the filter only
\* narrows what is listed, it does not restrict what can be entered)
browse_file_chosen ==
    /\ uistack # <<>>
    /\ Top.at = "askopenfilename"
    /\ \E filename \in {p \in Paths : p.suffix \in SourceSuffixes /\ exists(p)} :
        /\ selected_file' = filename
        /\ file_label' = filename
        /\ output_file' = None
        /\ IF app = "mit"
           THEN /\ start_conversion(filename, Pop)
                /\ UNCHANGED open_btn
           ELSE /\ convert_btn' = "normal"
                /\ open_btn' = "disabled"
                /\ uistack' = Pop
                /\ Touch("ui", {"file_label", "convert_btn", "open_btn"})
                /\ UNCHANGED <<upload_btn, progress_label, njobs, workers, jobs>>
    /\ UNCHANGED <<app, progress_bar, afterq, timers, fs>>

\* tis.py: the Convert to Text button is pressed
convert_btn_pressed ==
    /\ app = "tis"
    /\ convert_btn = "normal"
    /\ uistack = <<>>
    /\ njobs < MaxJobs
    /\ start_conversion(selected_file, uistack)
    /\ UNCHANGED <<app, selected_file, output_file, file_label, open_btn,
                   progress_bar, afterq, timers, fs>>

(***************************************************************************)
(* The worker thread: what convert_media and convert_video share           *)
(***************************************************************************)
\* the variables no worker statement assigns
ui_only == <<app, selected_file, file_label, upload_btn, convert_btn, open_btn,
             progress_label, uistack, timers, njobs>>

Advance(j, w, next) == workers' = [workers EXCEPT ![j] = [w EXCEPT !.pc = next]]

\* root.after(0, lambda: self.progress_label.config(text=...)) from the worker
post_label(j, text) == afterq' = Append(afterq, Callback(j, "label", text))

\* an except clause that swallows the error without reporting it
except_handler_silent(j, w, msg) ==
    /\ Advance(j, w, "done")
    /\ afterq' = afterq

\* except Exception as e: error_message = str(e); root.after(0, conversion_failed)
except_handler(j, w, msg) ==
    /\ Advance(j, w, "done")
    /\ afterq' = Append(afterq, Callback(j, "failed", msg))

\* self.progress_bar.step(n), called by the worker itself
worker_step(n) ==
    /\ Progressbar_step(n)
    /\ Touch("worker", {"progress_bar"})

\* a job's history: the decoding backend was called / the job wrote path p
Decoded(j) == jobs' = [jobs EXCEPT ![j].decode = TRUE]

Made(j, p) == jobs' = [jobs EXCEPT ![j].made = @ \cup {p.suffix}]

\* audio.write_audiofile(str(wav_filename)): writes the file, or raises having
\* written nothing, or raises leaving a partial file
write_audiofile(j, w, wav, next) ==
    \/ /\ fs' = [fs EXCEPT ![wav] = "audio"]
       /\ Made(j, wav)
       /\ Advance(j, w, next)
       /\ UNCHANGED afterq
    \/ /\ except_handler(j, w, "write_audiofile")
       /\ UNCHANGED <<fs, jobs>>
    \/ /\ fs' = [fs EXCEPT ![wav] = "partial"]
       /\ Made(j, wav)
       /\ except_handler(j, w, "write_audiofile")

\* with AudioFile(str(wav_filename)) as source: data = r.record(source)
load_audio(j, w, next) ==
    \/ /\ exists(w.wav_filename)
       /\ fs[w.wav_filename] = "audio"
       /\ Advance(j, w, next)
       /\ UNCHANGED afterq
    \/ except_handler(j, w, "AudioFile")

\* text = r.recognize_vosk(data): any text, the empty one included, or raises
recognize_vosk(j, w, next) ==
    \/ /\ \E text \in Texts : Advance(j, [w EXCEPT !.text = text], next)
       /\ UNCHANGED afterq
    \/ except_handler(j, w, "recognize_vosk")

\* with self.output_file.open("w", encoding="utf-8") as f: f.write(text)
\* open("w") truncates; open may raise, and so may write after the truncation
write_text(j, w, out, next) ==
    \/ /\ fs' = [fs EXCEPT ![out] = w.text]
       /\ Made(j, out)
       /\ Advance(j, w, next)
       /\ UNCHANGED afterq
    \/ /\ except_handler(j, w, "open")
       /\ UNCHANGED <<fs, jobs>>
    \/ /\ fs' = [fs EXCEPT ![out] = ""]
       /\ Made(j, out)
       /\ except_handler(j, w, "write")

\* completion that leaves the intermediate file behind
complete_without_unlink(j, w) ==
    /\ fs' = fs
    /\ Advance(j, w, "done")
    /\ afterq' = Append(afterq, Callback(j, "completed", ""))

\* if wav_filename.exists(): wav_filename.unlink()
\* then root.after(0, self.conversion_completed)
unlink_and_complete(j, w) ==
    \/ /\ fs' = [fs EXCEPT ![w.wav_filename] = Absent]
       /\ Advance(j, w, "done")
       /\ afterq' = Append(afterq, Callback(j, "completed", ""))
    \/ /\ exists(w.wav_filename)
       /\ except_handler(j, w, "unlink")
       /\ UNCHANGED fs

(***************************************************************************)
(* mit.py convert_media (125-166)                                          *)
(***************************************************************************)
\* 129-133
convert_media_begin(j) ==
    /\ app = "mit"
    /\ workers[j].pc = "begin"
    /\ worker_step(MitStep)
    /\ post_label(j, "Extracting audio...")
    /\ Advance(j, workers[j], "open")
    /\ UNCHANGED <<ui_only, output_file, fs, jobs>>

\* 134: file = AudioFileClip(str(self.selected_file)), whatever the suffix
convert_media_open(j) ==
    /\ app = "mit"
    /\ workers[j].pc = "open"
    /\ Decoded(j)
    /\ \/ /\ exists(selected_file)
          /\ Advance(j, [workers[j] EXCEPT !.clip = "open"], "write")
          /\ UNCHANGED afterq
       \/ except_handler(j, workers[j], "AudioFileClip")
    /\ UNCHANGED <<ui_only, output_file, progress_bar, fs, widget_use>>

\* 135-136
convert_media_write(j) ==
    /\ app = "mit"
    /\ workers[j].pc = "write"
    /\ LET wav == wav_of(selected_file)
       IN  write_audiofile(j, [workers[j] EXCEPT !.wav_filename = wav], wav, "close")
    /\ UNCHANGED <<ui_only, output_file, progress_bar, widget_use>>

\* 137: file.close()
convert_media_close(j) ==
    /\ app = "mit"
    /\ workers[j].pc = "close"
    /\ Advance(j, [workers[j] EXCEPT !.clip = "closed"], "recognizer")
    /\ UNCHANGED <<ui_only, output_file, progress_bar, afterq, fs, jobs, widget_use>>

\* 140-145
convert_media_recognizer(j) ==
    /\ app = "mit"
    /\ workers[j].pc = "recognizer"
    /\ worker_step(MitStep)
    /\ post_label(j, "Converting speech to text...")
    /\ Advance(j, workers[j], "load")
    /\ UNCHANGED <<ui_only, output_file, fs, jobs>>

\* 146-147
convert_media_load(j) ==
    /\ app = "mit"
    /\ workers[j].pc = "load"
    /\ load_audio(j, workers[j], "recognize")
    /\ UNCHANGED <<ui_only, output_file, progress_bar, fs, jobs, widget_use>>

\* 148
convert_media_recognize(j) ==
    /\ app = "mit"
    /\ workers[j].pc = "recognize"
    /\ recognize_vosk(j, workers[j], "save")
    /\ UNCHANGED <<ui_only, output_file, progress_bar, fs, jobs, widget_use>>

\* 151-156
convert_media_save(j) ==
    /\ app = "mit"
    /\ workers[j].pc = "save"
    /\ worker_step(MitStep)
    /\ output_file' = txt_of(selected_file)
    /\ write_text(j, workers[j], txt_of(selected_file), "cleanup")
    /\ UNCHANGED ui_only

\* 159-161
convert_media_cleanup(j) ==
    /\ app = "mit"
    /\ workers[j].pc = "cleanup"
    /\ unlink_and_complete(j, workers[j])
    /\ UNCHANGED <<ui_only, output_file, progress_bar, jobs, widget_use>>

(***************************************************************************)
(* tis.py convert_video (129-197)                                          *)
(***************************************************************************)
\* 133-136
convert_video_begin(j) ==
    /\ app = "tis"
    /\ workers[j].pc = "begin"
    /\ worker_step(TisStep)
    /\ post_label(j, "Extracting audio...")
    /\ Advance(j, workers[j], "load_video")
    /\ UNCHANGED <<ui_only, output_file, fs, jobs>>

\* VideoFileClip(path) / AudioFileClip(path): a handle, or raises;
\* video.audio is None when the container has no audio track
open_clip(j, tracks) ==
    /\ Decoded(j)
    /\ \/ /\ exists(selected_file)
          /\ \E a \in tracks :
                Advance(j, [workers[j] EXCEPT !.clip = "open", !.audio_file = a], "extract")
          /\ UNCHANGED afterq
       \/ except_handler(j, workers[j], "FileClip")

\* 139-144: no else branch, audio_file stays unbound for any other suffix
convert_video_load(j) ==
    /\ app = "tis"
    /\ workers[j].pc = "load_video"
    /\ worker_step(TisStep)
    /\ IF lower(selected_file.suffix) \in VideoSuffixes
       THEN open_clip(j, {"track", "none"})
       ELSE IF lower(selected_file.suffix) \in AudioSuffixes
       THEN open_clip(j, {"track"})
       ELSE /\ Advance(j, workers[j], "extract")
            /\ UNCHANGED <<afterq, jobs>>
    /\ UNCHANGED <<ui_only, output_file, fs>>

\* 147-149: UnboundLocalError / AttributeError when there is nothing to write
convert_video_extract(j) ==
    /\ app = "tis"
    /\ workers[j].pc = "extract"
    /\ worker_step(TisStep)
    /\ LET wav == wav_of(selected_file)
           w == [workers[j] EXCEPT !.wav_filename = wav]
       IN  IF w.audio_file = "track"
           THEN write_audiofile(j, w, wav, "close")
           ELSE /\ except_handler(j, w, w.audio_file)
                /\ UNCHANGED <<fs, jobs>>
    /\ UNCHANGED <<ui_only, output_file>>

\* 152-156: video.close() or audio_file.close()
convert_video_close(j) ==
    /\ app = "tis"
    /\ workers[j].pc = "close"
    /\ worker_step(TisStep)
    /\ Advance(j, [workers[j] EXCEPT !.clip = "closed"], "progress")
    /\ UNCHANGED <<ui_only, output_file, afterq, fs, jobs>>

\* 159-163
convert_video_progress(j) ==
    /\ app = "tis"
    /\ workers[j].pc = "progress"
    /\ worker_step(TisStep)
    /\ post_label(j, "Converting speech to text...")
    /\ Advance(j, workers[j], "recognizer")
    /\ UNCHANGED <<ui_only, output_file, fs, jobs>>

\* 166-167: r = Recognizer()
convert_video_recognizer(j) ==
    /\ app = "tis"
    /\ workers[j].pc = "recognizer"
    /\ worker_step(TisStep)
    /\ Advance(j, workers[j], "load")
    /\ UNCHANGED <<ui_only, output_file, afterq, fs, jobs>>

\* 170-172
convert_video_audio(j) ==
    /\ app = "tis"
    /\ workers[j].pc = "load"
    /\ worker_step(TisStep)
    /\ load_audio(j, workers[j], "recognize")
    /\ UNCHANGED <<ui_only, output_file, fs, jobs>>

\* 175-176
convert_video_recognize(j) ==
    /\ app = "tis"
    /\ workers[j].pc = "recognize"
    /\ worker_step(TisStep)
    /\ recognize_vosk(j, workers[j], "save")
    /\ UNCHANGED <<ui_only, output_file, fs, jobs>>

\* 179-184
convert_video_save(j) ==
    /\ app = "tis"
    /\ workers[j].pc = "save"
    /\ worker_step(TisStep)
    /\ output_file' = txt_of(selected_file)
    /\ write_text(j, workers[j], txt_of(selected_file), "cleanup")
    /\ UNCHANGED ui_only

\* 187-192
convert_video_cleanup(j) ==
    /\ app = "tis"
    /\ workers[j].pc = "cleanup"
    /\ worker_step(TisStep)
    /\ unlink_and_complete(j, workers[j])
    /\ UNCHANGED <<ui_only, output_file, jobs>>

(***************************************************************************)
(* The UI thread: callbacks run by the event loop                          *)
(***************************************************************************)
\* the variables no callback assigns
worker_only == <<app, selected_file, output_file, workers, njobs, fs>>

\* lambda: self.progress_label.config(text=...), posted by a worker
progress_label_callback ==
    /\ afterq # <<>>
    /\ Head(afterq).kind = "label"
    /\ progress_label' = Head(afterq).msg
    /\ afterq' = Tail(afterq)
    /\ Touch("ui", {"progress_label"})
    /\ UNCHANGED <<worker_only, file_label, upload_btn, convert_btn, open_btn,
                   progress_bar, uistack, timers, jobs>>

\* "Re-enable buttons" (mit.py 174, 191; tis.py 205-207, 217-218)
enable_buttons(kind) ==
    /\ upload_btn' = "normal"
    /\ convert_btn' = IF app = "tis" THEN "normal" ELSE convert_btn
    /\ open_btn' = IF app = "tis" /\ kind = "completed" THEN "normal" ELSE open_btn

\* the job's terminal callback runs (history)
Delivered(j, kind, msg) ==
    jobs' = [jobs EXCEPT ![j].terminal = kind, ![j].delivered = @ + 1, ![j].error = msg]

\* mit.py 168-176, tis.py 199-209: up to the modal messagebox.showinfo
conversion_completed ==
    /\ afterq # <<>>
    /\ Head(afterq).kind = "completed"
    /\ Progressbar_stop
    /\ progress_label' = "Conversion completed successfully!"
    /\ enable_buttons("completed")
    /\ uistack' = Append(uistack, Dialog("showinfo_success", Head(afterq).job))
    /\ afterq' = Tail(afterq)
    /\ Delivered(Head(afterq).job, "completed", "")
    /\ Touch("ui", {"progress_bar", "progress_label", "upload_btn"}
                   \cup IF app = "tis" THEN {"convert_btn", "open_btn"} ELSE {})
    /\ UNCHANGED <<worker_only, file_label, timers>>

\* mit.py 185-194, tis.py 211-220: up to the modal messagebox.showerror
conversion_failed ==
    /\ afterq # <<>>
    /\ Head(afterq).kind = "failed"
    /\ Progressbar_stop
    /\ progress_label' = "Conversion failed!"
    /\ enable_buttons("failed")
    /\ file_label' = IF app = "mit" THEN None ELSE file_label
    /\ uistack' = Append(uistack, Dialog("showerror_failed", Head(afterq).job))
    /\ afterq' = Tail(afterq)
    /\ Delivered(Head(afterq).job, "failed", Head(afterq).msg)
    /\ Touch("ui", {"progress_bar", "progress_label", "upload_btn"}
                   \cup IF app = "tis" THEN {"convert_btn"} ELSE {"file_label"})
    /\ UNCHANGED <<worker_only, timers>>

\* mit.py 178-182, 195-199: root.after(3000, label reset), then the file label
schedule_reset(j) ==
    /\ timers' = Append(timers, j)
    /\ file_label' = None
    /\ uistack' = Pop

\* the user closes the innermost message box and its handler goes on:
\* mit.py conversion_completed calls open_folder (201-218), which warns when
\* the text file is missing, else opens the folder; both handlers of mit.py
\* then schedule the label reset; the handlers of tis.py are finished
dismiss_messagebox ==
    /\ uistack # <<>>
    /\ Top.at # "askopenfilename"
    /\ IF app = "mit" /\ Top.at = "showinfo_success"
                      /\ ~(output_file # None /\ exists(output_file))
       THEN /\ uistack' = Append(Pop, Dialog("showwarning_nofile", Top.job))
            /\ UNCHANGED <<timers, file_label>>
       ELSE IF app = "mit" /\ Top.job # 0
       THEN schedule_reset(Top.job)
       ELSE /\ uistack' = Pop
            /\ UNCHANGED <<timers, file_label>>
    /\ UNCHANGED <<worker_only, upload_btn, convert_btn, open_btn, progress_label,
                   progress_bar, afterq, jobs, widget_use>>

\* the lambda posted with root.after(3000, ...): self.progress_label.config(text="")
label_reset ==
    /\ timers # <<>>
    /\ progress_label' = ""
    /\ timers' = Tail(timers)
    /\ Touch("ui", {"progress_label"})
    /\ UNCHANGED <<worker_only, file_label, upload_btn, convert_btn, open_btn,
                   progress_bar, uistack, afterq, jobs>>

\* tis.py 222-237: the Open Folder button; opens the folder or warns
open_text_file ==
    /\ app = "tis"
    /\ open_btn = "normal"
    /\ uistack = <<>>
    /\ uistack' = IF output_file # None /\ exists(output_file)
                  THEN uistack
                  ELSE Append(uistack, Dialog("showwarning_nofile", 0))
    /\ UNCHANGED <<worker_only, file_label, upload_btn, convert_btn, open_btn,
                   progress_label, progress_bar, afterq, timers, jobs, widget_use>>

(***************************************************************************)
(* Specification                                                           *)
(***************************************************************************)
UserNext ==
    \/ browse_file_open
    \/ browse_file_cancel
    \/ browse_file_chosen
    \/ convert_btn_pressed
    \/ dismiss_messagebox
    \/ open_text_file

LoopNext ==
    \/ progress_label_callback
    \/ conversion_completed
    \/ conversion_failed

WorkerNext ==
    \E j \in JobIds :
        \/ convert_media_begin(j)
        \/ convert_media_open(j)
        \/ convert_media_write(j)
        \/ convert_media_close(j)
        \/ convert_media_recognizer(j)
        \/ convert_media_load(j)
        \/ convert_media_recognize(j)
        \/ convert_media_save(j)
        \/ convert_media_cleanup(j)
        \/ convert_video_begin(j)
        \/ convert_video_load(j)
        \/ convert_video_extract(j)
        \/ convert_video_close(j)
        \/ convert_video_progress(j)
        \/ convert_video_recognizer(j)
        \/ convert_video_audio(j)
        \/ convert_video_recognize(j)
        \/ convert_video_save(j)
        \/ convert_video_cleanup(j)

Next == UserNext \/ LoopNext \/ label_reset \/ WorkerNext

Spec == Init /\ [][Next]_vars

\* every backend call returns or raises, and the event loop keeps running
FairSpec == Spec /\ WF_vars(WorkerNext) /\ WF_vars(LoopNext)

(***************************************************************************)
(* Properties                                                              *)
(***************************************************************************)
\* the suffix is one of mp4/avi/mov/mkv/mp3/wav/ogg, compared case-insensitively
Supported(p) == lower(p.suffix) \in VideoSuffixes \cup AudioSuffixes

\* worker j is running
InFlight(j) == workers[j].pc \notin {"unstarted", "done"}

\* job j was started and its terminal callback has not run yet
Pending(j) == workers[j].pc # "unstarted" /\ jobs[j].delivered = 0

\* the step runs a callback posted on behalf of job j
RunsCallbackOf(j) ==
    \/ timers # <<>> /\ timers' = Tail(timers) /\ Head(timers) = j
    \/ afterq # <<>> /\ afterq' = Tail(afterq) /\ Head(afterq).job = j

\* C1: once conversion_failed has run for a job whose extraction created
\* <stem>.wav and whose later step (loading the audio, recognition, writing
\* the transcript) raised, <stem>.wav does not exist.
C1_NoWavAfterLateFailure ==
    \A j \in JobIds :
        (/\ jobs[j].terminal = "failed"
         /\ jobs[j].error \in {"AudioFile", "recognize_vosk", "open", "write"}
         /\ ".wav" \in jobs[j].made)
        => ~exists(wav_of(jobs[j].src))

\* C2: while conversion_completed is posted for a job, <stem>.txt holds exactly
\* the text the recognizer returned for it and <stem>.wav does not exist.
C2_SucceededLeavesTranscriptOnly ==
    \A i \in 1..Len(afterq) :
        afterq[i].kind = "completed" =>
            LET j == afterq[i].job
            IN  /\ fs[txt_of(jobs[j].src)] = workers[j].text
                /\ ~exists(wav_of(jobs[j].src))

\* C2 witness: completion is posted for a job whose recognizer returned ""
C2_Witness ==
    \E i \in 1..Len(afterq) :
        /\ afterq[i].kind = "completed"
        /\ workers[afterq[i].job].text = ""
        /\ fs[txt_of(jobs[afterq[i].job].src)] = ""

\* C3: a job on a file with an unsupported suffix never calls the decoding
\* backend, never creates <stem>.wav or <stem>.txt, and does not succeed.
C3_UnsupportedShortCircuits ==
    \A j \in JobIds :
        (jobs[j].src # None /\ ~Supported(jobs[j].src))
        => /\ ~jobs[j].decode
           /\ jobs[j].made = {}
           /\ jobs[j].terminal # "completed"

\* C4: a job gets one terminal callback, delivered when none of its progress
\* updates is still pending, and after it no callback posted for that job
\* changes the progress label or the progress bar.
C4_TerminalIsLast ==
    [][\A j \in JobIds :
          /\ jobs'[j].delivered <= 1
          /\ jobs'[j].delivered > jobs[j].delivered
             => \A i \in 1..Len(afterq') : afterq'[i].job # j
          /\ (jobs[j].delivered >= 1 /\ RunsCallbackOf(j))
             => UNCHANGED <<progress_label, progress_bar>>]_vars

\* C5: no method of a widget is ever called from a worker thread.
C5_WidgetsOnUiThreadOnly == \A u \in widget_use : u[1] = "ui"

\* C6: at most one worker is in flight, and from the start of a job until its
\* terminal callback has run Browse (and Convert to Text in tis.py) is disabled.
C6_SingleJobInFlight ==
    /\ Cardinality({j \in JobIds : InFlight(j)}) <= 1
    /\ \A j \in JobIds :
          Pending(j) => /\ upload_btn = "disabled"
                        /\ app = "tis" => convert_btn = "disabled"

\* C6 witness: a second job is in flight while callbacks of it are queued
C6_Witness ==
    /\ njobs = 2
    /\ InFlight(2)
    /\ afterq # <<>>
    /\ upload_btn = "disabled"

\* C7: when a job has posted its terminal event, no media handle it opened is
\* still open.
C7_HandlesClosed ==
    \A j \in JobIds : workers[j].pc = "done" => workers[j].clip # "open"

\* C8: every started job leads to its terminal callback having run with Browse
\* (and Convert to Text in tis.py) enabled again, and a worker that has
\* finished never runs again.
C8_EveryJobEnds ==
    /\ \A j \in JobIds :
          (workers[j].pc = "begin")
          ~> (/\ jobs[j].delivered = 1
              /\ upload_btn = "normal"
              /\ app = "tis" => convert_btn = "normal")
    /\ [][\A j \in JobIds : workers[j].pc = "done" => workers'[j].pc = "done"]_vars

\* C8 witness: a job has failed and the buttons are enabled again
C8_Witness ==
    \E j \in JobIds :
        /\ jobs[j].terminal = "failed"
        /\ jobs[j].delivered = 1
        /\ upload_btn = "normal"
        /\ app = "tis" => convert_btn = "normal"

\* C9: once a job on an accepted file has reached its terminal state, the
\* source file still exists with the content it had when the job started.
C9_SourceUntouched ==
    \A j \in JobIds :
        (jobs[j].delivered >= 1 /\ jobs[j].src # None /\ Supported(jobs[j].src))
        => fs[jobs[j].src] = jobs[j].before

\* C10: no step of a worker decreases the progress bar value, and the value
\* stays within 0..100.
C10_BarNeverDecreases ==
    [][(workers' # workers /\ njobs' = njobs)
       => (progress_bar' >= progress_bar /\ progress_bar' \in 0..Maximum)]_vars

====
